---- MODULE Spec2Model ----
(***************************************************************************)
(* A model of src/python/app.py: the LaunchDarkly demo service.            *)
(*                                                                         *)
(*  - the SDK client lifecycle (initialize_launchdarkly_sdk and its        *)
(*    accessors),                                                          *)
(*  - context construction (validate_context_key, create_context),         *)
(*  - flag evaluation (evaluate_flag) against an opaque engine,            *)
(*  - the evaluation endpoint GET /api/flag (flag_endpoint),               *)
(*  - the streaming endpoint GET /api/sse (sse_endpoint and its generator  *)
(*    generate(), with the change listener the engine calls back).         *)
(*                                                                         *)
(* Python strings are sequences of tokens (a token is a chunk of           *)
(* characters that the code never looks inside); Python's None is the      *)
(* one-token sequence None, which no real string equals.                   *)
(***************************************************************************)
EXTENDS Integers, Sequences, FiniteSets, TLC

VARIABLES
    \* ---- module globals of app.py
    ld_client,                  \* _ld_client: NoClient (None) or the client's number
    sdk_initialized,            \* _sdk_initialized
    sdk_initialization_error,   \* _sdk_initialization_error: "None" or a message
    current_context,            \* current_context (the dashboard's default context)
    \* ---- the running call of initialize_launchdarkly_sdk()
    initPc,                     \* "idle" | "waiting" | "done"
    initWaited,                 \* seconds spent in the wait loop
    initResult,                 \* what the last call returned: "none" | "True" | "False"
    starts,                     \* calls of initialize_launchdarkly_sdk() so far
    \* ---- the environment and the engine (ldclient)
    sdkKeySet,                  \* LAUNCHDARKLY_SDK_KEY is set in the environment
    engineReady,                \* what _ld_client.is_initialized() answers
    flagValue,                  \* the value the engine resolves for "user-message"
    changes,                    \* flag value changes so far
    listeners,                  \* streams whose listener the flag tracker holds
    \* ---- the last direct call of evaluate_flag and the last HTTP response
    lastEval,
    lastResponse,
    \* ---- one SSE connection per stream id (the closure of sse_endpoint)
    pc,                         \* where the connection's generator stands
    streamKey,                  \* context_key of the request
    queue,                      \* update_queue
    listener_registered,        \* listener_registered
    sinceHb,                    \* seconds since last_heartbeat was set
    openFor,                    \* seconds since the loop was entered (capped)
    emitted,                    \* the data events written to the client, in order
    heartbeats,                 \* heartbeat lines written to the client (capped)
    enqueued,                   \* every payload the listener has put, in order
    notified,                   \* calls of the listener by the engine
    evalFailed,                 \* an evaluation for this stream fell back to the default
    closedBy,                   \* how the generator ended: "none" | "exit" | "error"
    evaluations,                \* calls of evaluate_flag made for this connection
    sinceAct,                   \* seconds since the last data event or heartbeat (capped)
    \* ---- direct calls of the context builders and of calculate_hash_value
    lastBuild,
    lastHash,
    \* ---- requests in flight: POST /api/context (one per thread), GET /api/status
    ctxReq,
    statusReq,
    \* ---- a GET /api/flag request that takes its context from current_context
    flagReq

lifecycleVars == <<ld_client, sdk_initialized, sdk_initialization_error, initPc,
                   initWaited, initResult, starts, sdkKeySet, engineReady>>
streamVars == <<pc, streamKey, queue, listener_registered, sinceHb, openFor, emitted,
                heartbeats, enqueued, notified, evalFailed, closedBy, evaluations,
                sinceAct>>
requestVars == <<lastBuild, lastHash, ctxReq, statusReq, flagReq>>
vars == <<ld_client, sdk_initialized, sdk_initialization_error, current_context,
          initPc, initWaited, initResult, starts, sdkKeySet, engineReady, flagValue,
          changes, listeners, lastEval, lastResponse, pc, streamKey, queue,
          listener_registered, sinceHb, openFor, emitted, heartbeats, enqueued,
          notified, evalFailed, closedBy, evaluations, sinceAct, lastBuild,
          lastHash, ctxReq, statusReq, flagReq>>

(***************************************************************************)
(* Bounds of the model.                                                    *)
(***************************************************************************)
MaxStarts == 2      \* calls of initialize_launchdarkly_sdk()
MaxChanges == 2     \* flag value changes the engine makes
MaxHeartbeats == 1  \* the heartbeat counter stops counting here
MaxOpen == 16       \* the open-time clock stops counting here
MaxSecondsTwo == 1  \* seconds each of two concurrent connections is followed for
MaxChangesTwo == 1  \* flag value changes under two concurrent connections

(***************************************************************************)
(* Program constants.                                                      *)
(***************************************************************************)
heartbeat_interval == 15        \* seconds
initialization_timeout == 10    \* seconds
SleepSeconds == 1               \* time.sleep(1) of the stream loop

\* ------------------------------------------------------------------ strings

None == <<"<None>">>
Tokens == {" ", "u", "@", "python-anon-", "python-app"}

IsNone(s) == s = None
\* Python truthiness of an Optional[str]: None and "" are falsy.
Truthy(s) == ~IsNone(s) /\ Len(s) > 0

RECURSIVE LStrip(_)
LStrip(s) == IF Len(s) > 0 /\ Head(s) = " " THEN LStrip(Tail(s)) ELSE s

RECURSIVE RStrip(_)
RStrip(s) ==
    IF Len(s) > 0 /\ s[Len(s)] = " " THEN RStrip(SubSeq(s, 1, Len(s) - 1)) ELSE s

\* str.strip()
Strip(s) == RStrip(LStrip(s))

\* A value that is neither None nor a str (an int, a list, ...).
NonStr == <<"<int>">>
IsStr(s) == s # None /\ s # NonStr

\* ------------------------------------------------- the SDK client lifecycle

NoClient == 0       \* _ld_client is None

\* A readiness test that asks the engine only.
IsSdkInitializedEngineOnly == ld_client # NoClient /\ engineReady

\* is_sdk_initialized()
IsSdkInitialized == sdk_initialized /\ ld_client # NoClient /\ engineReady

\* get_sdk_connection_state()
GetSdkConnectionState ==
    IF ~sdk_initialized \/ ld_client = NoClient THEN "OFF"
    ELSE IF ~engineReady THEN "INITIALIZING"
    ELSE "VALID"

\* get_ld_client()
GetLdClient == ld_client

\* get_sdk_initialization_error()
GetSdkInitializationError == sdk_initialization_error

\* A start that never takes the early return.
AlreadyInitializedNever == FALSE

\* The test of the early return of initialize_launchdarkly_sdk():
\* _sdk_initialized and _ld_client.
AlreadyInitialized == sdk_initialized /\ ld_client # NoClient

\* A call of initialize_launchdarkly_sdk() up to the wait loop: the early return of
\* an initialized client, the missing key, an exception of Config/set_config/get
\* (fails), or the new client whose readiness the loop then polls.
InitializeEnter(fails) ==
    /\ initPc # "waiting"
    /\ starts' = starts + 1
    /\ IF AlreadyInitialized
       THEN /\ initPc' = "done"
            /\ initResult' = "True"
            /\ UNCHANGED <<ld_client, sdk_initialized, sdk_initialization_error,
                           initWaited, engineReady>>
       ELSE IF ~sdkKeySet
       THEN /\ sdk_initialization_error' = "LAUNCHDARKLY_SDK_KEY environment variable not set"
            /\ sdk_initialized' = FALSE
            /\ initPc' = "done"
            /\ initResult' = "False"
            /\ UNCHANGED <<ld_client, initWaited, engineReady>>
       ELSE IF fails
       THEN /\ sdk_initialization_error' = "Failed to initialize LaunchDarkly SDK"
            /\ sdk_initialized' = FALSE
            /\ initPc' = "done"
            /\ initResult' = "False"
            /\ UNCHANGED <<ld_client, initWaited, engineReady>>
       ELSE \* ldclient.set_config(config) makes a new client, not yet ready
            /\ ld_client' = starts + 1
            /\ engineReady' = FALSE
            /\ initWaited' = 0
            /\ initPc' = "waiting"
            /\ initResult' = "none"
            /\ UNCHANGED <<sdk_initialized, sdk_initialization_error>>
    /\ UNCHANGED sdkKeySet

\* A success that leaves the recorded error of an earlier start in place.
ErrorAfterSuccessKept(error) == error

\* _sdk_initialization_error = None, on success.
ErrorAfterSuccess(error) == "None"

\* A clock that stands still: the time waited is the same after the sleeps.
AfterSleepClockStands(waited) == waited

\* time.time() - start_time after another second of time.sleep(0.1) calls.
AfterSleep(waited) == waited + 1

\* The wait loop, a second at a time: the engine is found ready, the time is up, or
\* another second of polls (ten sleeps of 100 ms) goes by with the engine not ready;
\* or a call inside the loop raises (fault) and the handler records the failure.
\* wait_time is a local of the call: it is gone when the call returns.
InitializePollWith(fault) ==
    /\ initPc = "waiting"
    /\ IF fault
       THEN /\ sdk_initialization_error' = "Failed to initialize LaunchDarkly SDK"
            /\ sdk_initialized' = FALSE
            /\ initPc' = "done"
            /\ initResult' = "False"
            /\ initWaited' = 0
       ELSE IF engineReady
       THEN /\ sdk_initialized' = TRUE
            /\ sdk_initialization_error' = ErrorAfterSuccess(sdk_initialization_error)
            /\ initPc' = "done"
            /\ initResult' = "True"
            /\ initWaited' = 0
       ELSE IF initWaited > initialization_timeout
       THEN /\ sdk_initialization_error' = "SDK initialization timed out"
            /\ sdk_initialized' = FALSE
            /\ initPc' = "done"
            /\ initResult' = "False"
            /\ initWaited' = 0
       ELSE /\ initWaited' = AfterSleep(initWaited)
            /\ UNCHANGED <<sdk_initialized, sdk_initialization_error, initPc, initResult>>
    /\ UNCHANGED <<ld_client, starts, sdkKeySet, engineReady>>

InitializePoll == \E fault \in BOOLEAN : InitializePollWith(fault)

\* The engine's own thread: the client finishes connecting.
EngineConnects ==
    /\ ld_client # NoClient
    /\ ~engineReady
    /\ engineReady' = TRUE
    /\ UNCHANGED <<ld_client, sdk_initialized, sdk_initialization_error, initPc,
                   initWaited, initResult, starts, sdkKeySet>>

\* The module-level call when app.py is loaded.
ModuleLoad ==
    /\ starts = 0
    /\ \E fails \in BOOLEAN : InitializeEnter(fails)

\* A later call of initialize_launchdarkly_sdk().
CallInitialize ==
    /\ starts >= 1
    /\ starts < MaxStarts
    /\ \E fails \in BOOLEAN : InitializeEnter(fails)

\* The service handles requests once the module is loaded.
Serving == starts >= 1 /\ initPc = "done"

\* ------------------------------------------------------- context creation

AttrNames == {"email", "name", "location"}

\* validate_context_key(context_key): TRUE when the key is valid.
ValidateContextKey(context_key) ==
    /\ ~IsNone(context_key)
    /\ IsStr(context_key)
    /\ Len(context_key) > 0
    /\ Len(Strip(context_key)) > 0

\* A builder that stores the attributes as given.
MultiContextUntrimmed(context_key, attrs) ==
    [kind |-> "multi",
     user |-> [kind |-> "user",
               key |-> Strip(context_key),
               anonymous |-> FALSE,
               attrs |-> [a \in {b \in AttrNames : Truthy(attrs[b])} |-> attrs[a]]],
     container |-> [kind |-> "container", key |-> <<"python-app">>]]

\* The multi-context that the builder calls of create_context make: the user
\* sub-context with the stripped key and the attributes that are non-empty after
\* stripping, and the fixed container sub-context.
MultiContext(context_key, attrs) ==
    [kind |-> "multi",
     user |-> [kind |-> "user",
               key |-> Strip(context_key),
               anonymous |-> FALSE,
               attrs |-> [a \in {b \in AttrNames :
                                    Truthy(attrs[b]) /\ Len(Strip(attrs[b])) > 0}
                            |-> Strip(attrs[a])]],
     container |-> [kind |-> "container", key |-> <<"python-app">>]]

\* A create_context without its validation.
CreateContextUnchecked(context_key, attrs, builderFails) ==
    [ok |-> TRUE, context |-> MultiContext(context_key, attrs)]

\* create_context(context_key, email, name, location), attrs the three optional
\* parameters; builderFails: the SDK's builder (or its import) raises.
CreateContext(context_key, attrs, builderFails) ==
    IF IsNone(context_key) \/ ~IsStr(context_key)
        \/ Len(context_key) = 0 \/ Len(Strip(context_key)) = 0
    THEN [ok |-> FALSE, error |-> "ValueError"]
    ELSE IF \E a \in AttrNames : ~IsNone(attrs[a]) /\ ~IsStr(attrs[a])
    THEN [ok |-> FALSE, error |-> "TypeError"]
    ELSE IF builderFails
    THEN [ok |-> FALSE, error |-> "RuntimeError"]
    ELSE [ok |-> TRUE, context |-> MultiContext(context_key, attrs)]

\* A context_data handed to buildContext: None, a value that is not a dict, or a
\* dict. dict.get answers None for a field that is absent as for one that is None, so
\* a dict is given by what .get answers for each field; `anonymous` is the truth
\* value of context_data.get('anonymous', False).
DataNone == [shape |-> "None"]
DataNotDict == [shape |-> "notDict"]
DataDict(key, anonymous, attrs) ==
    [shape |-> "dict", key |-> key, anonymous |-> anonymous, attrs |-> attrs]

\* buildContext(context_data); builderFails: the SDK's builder (or its import)
\* raises. The key is used as given, and an attribute is set when it is a str that
\* is non-empty after stripping.
BuildContext(context_data, builderFails) ==
    IF context_data.shape = "None" \/ context_data.shape # "dict"
    THEN [ok |-> FALSE, error |-> "ValueError"]
    ELSE IF ~Truthy(context_data.key)
    THEN [ok |-> FALSE, error |-> "ValueError"]
    ELSE IF builderFails
    THEN [ok |-> FALSE, error |-> "RuntimeError"]
    ELSE [ok |-> TRUE,
          context |->
            [kind |-> "multi",
             user |-> [kind |-> "user",
                       key |-> context_data.key,
                       anonymous |-> context_data.anonymous,
                       attrs |-> [a \in {b \in AttrNames :
                                            /\ Truthy(context_data.attrs[b])
                                            /\ IsStr(context_data.attrs[b])
                                            /\ Len(Strip(context_data.attrs[b])) > 0}
                                    |-> Strip(context_data.attrs[a])]],
             container |-> [kind |-> "container", key |-> <<"python-app">>]]]

\* The arguments of the direct calls: keys and optional attributes that are None,
\* strings (empty, blank, padded, plain) or not strings. The key of a dict is None
\* or a string.
BuilderKeys == {None, NonStr, <<>>, <<" ">>, <<"u">>, <<" ", "u">>}
BuilderAttrValues == {None, NonStr, <<>>, <<" ">>, <<"u", "@">>, <<" ", "u", " ">>}
BuilderAttrs == [AttrNames -> BuilderAttrValues]
BuilderData ==
    {DataNone, DataNotDict}
        \cup {DataDict(key, anonymous, attrs) :
                key \in BuilderKeys \ {NonStr}, anonymous \in BOOLEAN,
                attrs \in BuilderAttrs}

NoBuild == [made |-> FALSE]

\* One direct call of create_context.
CallCreateContext ==
    /\ ~lastBuild.made
    /\ \E context_key \in BuilderKeys, attrs \in BuilderAttrs, builderFails \in BOOLEAN :
        lastBuild' = [made |-> TRUE, fn |-> "create_context",
                      keyGiven |-> context_key, attrsGiven |-> TRUE, attrs |-> attrs,
                      builderFails |-> builderFails,
                      outcome |-> CreateContext(context_key, attrs, builderFails)]
    /\ UNCHANGED <<lifecycleVars, current_context, flagValue, changes, listeners,
                   lastEval, lastResponse, streamVars, flagReq, lastHash, ctxReq, statusReq>>

\* One direct call of buildContext.
CallBuildContext ==
    /\ ~lastBuild.made
    /\ \E context_data \in BuilderData, builderFails \in BOOLEAN :
        lastBuild' = [made |-> TRUE, fn |-> "buildContext",
                      keyGiven |-> IF context_data.shape = "dict"
                                   THEN context_data.key ELSE None,
                      attrsGiven |-> context_data.shape = "dict",
                      attrs |-> IF context_data.shape = "dict"
                                THEN context_data.attrs
                                ELSE [a \in AttrNames |-> None],
                      builderFails |-> builderFails,
                      outcome |-> BuildContext(context_data, builderFails)]
    /\ UNCHANGED <<lifecycleVars, current_context, flagValue, changes, listeners,
                   lastEval, lastResponse, streamVars, flagReq, lastHash, ctxReq, statusReq>>

\* --------------------------------------------------------- flag evaluation

DefaultMessage == "Hello from Python!"
FlagValues == {"A", "B"}

PyNone == "None"    \* a None inside the engine's reason dict

\* The reasons the engine's variation_detail may hand back: not a dict at all, an
\* empty dict, and dicts whose fields are set, missing or None.
ReasonNotDict == [isDict |-> FALSE, d |-> [f \in {} |-> PyNone]]
ReasonDict(d) == [isDict |-> TRUE, d |-> d]
EngineReasons ==
    { ReasonNotDict,
      ReasonDict([f \in {} |-> PyNone]),
      ReasonDict([kind |-> "FALLTHROUGH"]),
      ReasonDict([kind |-> "TARGET_MATCH"]),
      ReasonDict([kind |-> "RULE_MATCH", ruleIndex |-> "0", ruleId |-> "rule-1"]),
      ReasonDict([kind |-> "RULE_MATCH", ruleIndex |-> "0", ruleId |-> PyNone]),
      ReasonDict([kind |-> "ERROR", errorKind |-> "FLAG_NOT_FOUND"]),
      ReasonDict([kind |-> "OFF", ruleIndex |-> PyNone, errorKind |-> PyNone]),
      ReasonDict([kind |-> PyNone]),
      ReasonDict([ruleIndex |-> "1"]) }

\* What one call of client.variation_detail does: it raises an exception with the
\* given args, or returns a detail with a reason.
EngineRaises(args) ==
    [raises |-> TRUE, args |-> args, value |-> "", reason |-> ReasonNotDict]
EngineReturns(v, r) == [raises |-> FALSE, args |-> <<>>, value |-> v, reason |-> r]
\* v: the value the engine resolves for the flag at the time of the call.
EngineOutcomes(v) ==
    {EngineRaises(args) : args \in {<<>>, <<"Network error">>}}
        \cup {EngineReturns(v, r) : r \in EngineReasons}

\* str(e) of an exception: its argument, and the empty string when it has none.
PyStr(args) == IF Len(args) = 0 THEN "" ELSE args[1]

\* detail.value: the engine serves the caller's default when it reports an error.
DetailValue(engine, default_value) ==
    IF engine.reason.isDict /\ "kind" \in DOMAIN engine.reason.d
        /\ engine.reason.d["kind"] = "ERROR"
    THEN default_value
    ELSE engine.value

\* reason_dict.get("kind", "UNKNOWN")
ReasonKind(reason_dict) ==
    IF "kind" \in DOMAIN reason_dict THEN reason_dict["kind"] ELSE "UNKNOWN"

\* A reason that copies every field the engine's dict has, None or not.
NormalizeReasonKeepsNone(r) ==
    LET reason_dict == IF r.isDict THEN r.d ELSE [f \in {} |-> PyNone]
        kept == {"ruleIndex", "ruleId", "errorKind"} \cap DOMAIN reason_dict
    IN  [f \in {"kind"} \cup kept |->
            IF f = "kind" THEN ReasonKind(reason_dict) ELSE reason_dict[f]]

\* The reason evaluate_flag builds from the engine's reason.
NormalizeReason(r) ==
    LET reason_dict == IF r.isDict THEN r.d ELSE [f \in {} |-> PyNone]
        kept == {f \in {"ruleIndex", "ruleId", "errorKind"} :
                    f \in DOMAIN reason_dict /\ reason_dict[f] # PyNone}
    IN  [f \in {"kind"} \cup kept |->
            IF f = "kind" THEN ReasonKind(reason_dict) ELSE reason_dict[f]]

\* evaluate_flag with a readiness check that looks at the client handle only.
EvaluateFlagCallHandleOnly(flag_key, context, default_value, engine) ==
    IF GetLdClient = NoClient
    THEN [engineCalled |-> FALSE,
          result |-> [value |-> default_value,
                      reason |-> [kind |-> "ERROR", errorKind |-> "CLIENT_NOT_READY"]]]
    ELSE IF engine.raises
    THEN [engineCalled |-> TRUE,
          result |-> [value |-> default_value,
                      reason |-> [kind |-> "ERROR", errorKind |-> "EXCEPTION",
                                  errorMessage |-> PyStr(engine.args)]]]
    ELSE [engineCalled |-> TRUE,
          result |-> [value |-> DetailValue(engine, default_value),
                      reason |-> NormalizeReason(engine.reason)]]

\* evaluate_flag(flag_key, context, default_value), engine being what
\* variation_detail does if it is called: the result, and whether the engine was
\* called.
EvaluateFlagCall(flag_key, context, default_value, engine) ==
    IF ~IsSdkInitialized \/ GetLdClient = NoClient
    THEN [engineCalled |-> FALSE,
          result |-> [value |-> default_value,
                      reason |-> [kind |-> "ERROR", errorKind |-> "CLIENT_NOT_READY"]]]
    ELSE IF engine.raises
    THEN [engineCalled |-> TRUE,
          result |-> [value |-> default_value,
                      reason |-> [kind |-> "ERROR", errorKind |-> "EXCEPTION",
                                  errorMessage |-> PyStr(engine.args)]]]
    ELSE [engineCalled |-> TRUE,
          result |-> [value |-> DetailValue(engine, default_value),
                      reason |-> NormalizeReason(engine.reason)]]

EvaluateFlag(flag_key, context, default_value, engine) ==
    EvaluateFlagCall(flag_key, context, default_value, engine).result

FlagKey == <<"user-message">>

NoEval ==
    [made |-> FALSE, flag_key |-> <<>>, default_value |-> "", engine |-> EngineRaises(<<>>),
     ready |-> FALSE, client |-> NoClient, engineCalled |-> FALSE,
     result |-> [value |-> "", reason |-> [kind |-> ""]]]

\* A direct call of evaluate_flag; the record keeps what it was called with, whether
\* is_sdk_initialized() and the client handle were at the call, whether the engine was
\* called, and the result.
CallEvaluateFlag ==
    /\ Serving
    /\ \E flag_key \in {FlagKey, <<"other-flag">>},
          default_value \in {DefaultMessage, "Hello!"},
          engine \in EngineOutcomes(flagValue) :
            LET call == EvaluateFlagCall(flag_key, None, default_value, engine)
            IN  lastEval' = [made |-> TRUE, flag_key |-> flag_key,
                             default_value |-> default_value, engine |-> engine,
                             ready |-> IsSdkInitialized, client |-> GetLdClient,
                             engineCalled |-> call.engineCalled,
                             result |-> call.result]
    /\ UNCHANGED <<requestVars, lifecycleVars, current_context, flagValue, changes, listeners,
                   lastResponse, streamVars>>

\* ------------------------------------------------------ bucketing metadata

KnownSalt == <<"94b881a3be5c449d99dbbe1a92ca3fa0">>

\* get_flag_salt(flag_key)
GetFlagSalt(flag_key) ==
    IF GetLdClient = NoClient \/ ~IsSdkInitialized THEN flag_key
    ELSE IF flag_key = FlagKey THEN KnownSalt
    ELSE flag_key

\* The first 15 hex digits of the SHA-1 digest, kept symbolic: a value that the
\* hashed input determines.
Sha1Hex15(hash_input) == <<"sha1">> \o hash_input

\* calculate_hash_value(flag_key, context_key, salt); None for an empty input.
CalculateHashValue(flag_key, context_key, salt) ==
    IF ~Truthy(flag_key) \/ ~Truthy(context_key) \/ ~Truthy(salt)
    THEN [isNone |-> TRUE, hashValue |-> <<>>, salt |-> <<>>]
    ELSE [isNone |-> FALSE,
          hashValue |-> Sha1Hex15(flag_key \o <<".">> \o salt \o <<".">> \o context_key),
          salt |-> salt]

\* The numbers of calculate_hash_value. A 15-digit hexadecimal value has 60 bits: it
\* is kept as three limbs of five hexadecimal digits (20 bits each), most significant
\* first. A hex digit is a number in 0..15.

\* A parse that takes the digits in base 17.
RECURSIVE ParseHexBase17(_)
ParseHexBase17(digits) ==
    IF Len(digits) = 0 THEN 0
    ELSE 17 * ParseHexBase17(SubSeq(digits, 1, Len(digits) - 1)) + digits[Len(digits)]

\* int(digits, 16) of up to five digits.
RECURSIVE ParseHex(_)
ParseHex(digits) ==
    IF Len(digits) = 0 THEN 0
    ELSE 16 * ParseHex(SubSeq(digits, 1, Len(digits) - 1)) + digits[Len(digits)]

\* int(hash_prefix, 16) of the fifteen digits of the prefix.
HashValueOf(hash_prefix) ==
    <<ParseHex(SubSeq(hash_prefix, 1, 5)), ParseHex(SubSeq(hash_prefix, 6, 10)),
      ParseHex(SubSeq(hash_prefix, 11, 15))>>

\* max_hash = 0xFFFFFFFFFFFFFFF
max_hash == <<1048575, 1048575, 1048575>>

\* a < b for two 60-bit values.
Less(a, b) ==
    \/ a[1] < b[1]
    \/ a[1] = b[1] /\ a[2] < b[2]
    \/ a[1] = b[1] /\ a[2] = b[2] /\ a[3] < b[3]

\* calculate_hash_value from the digest on: sha1_hash[:15], int(hash_prefix, 16) and
\* the division by max_hash, the quotient kept as the fraction it is.
HashNumbers(hash_prefix, salt) ==
    LET hash_value == HashValueOf(hash_prefix)
    IN  [isNone |-> FALSE,
         hashValue |-> hash_value,
         bucketValue |-> [num |-> hash_value, den |-> max_hash],
         salt |-> salt]

\* The digests a call may meet: every 15-digit prefix made of these groups of five.
HexGroups ==
    {<<0, 0, 0, 0, 0>>, <<0, 0, 0, 0, 1>>, <<7, 10, 3, 12, 1>>,
     <<15, 15, 15, 15, 14>>, <<15, 15, 15, 15, 15>>}
HashPrefixes == {a \o b \o c : a, b, c \in HexGroups}
HashArgs == {<<>>, <<"u">>, FlagKey}

NoHash == [made |-> FALSE]

\* One direct call of calculate_hash_value; hash_prefix: the first 15 digits of the
\* SHA-1 digest of the hashed input.
CallCalculateHashValue ==
    /\ ~lastHash.made
    /\ \E flag_key \in HashArgs, context_key \in HashArgs, salt \in HashArgs,
          hash_prefix \in HashPrefixes :
        lastHash' = [made |-> TRUE, flag_key |-> flag_key, context_key |-> context_key,
                     salt |-> salt, hash_prefix |-> hash_prefix,
                     result |-> IF CalculateHashValue(flag_key, context_key, salt).isNone
                                THEN [isNone |-> TRUE]
                                ELSE HashNumbers(hash_prefix, salt)]
    /\ UNCHANGED <<lifecycleVars, current_context, flagValue, changes, listeners,
                   lastEval, lastResponse, streamVars, flagReq, lastBuild, ctxReq, statusReq>>

\* ------------------------------------------------------- GET /api/flag

InitialContext ==
    [kind |-> "multi",
     user |-> [kind |-> "user", key |-> <<"python-anon-", "u">>, anonymous |-> TRUE,
               attrs |-> [a \in {} |-> <<>>]],
     container |-> [kind |-> "container", key |-> <<"python-app">>]]

\* Python truthiness of a dict: the empty dict is falsy.
DictTruthy(d) == DOMAIN d # {}

\* The query parameters a request may carry: absent (None) or a string.
KeyParams == {None, <<>>, <<" ">>, <<"u">>, <<" ", "u">>}
AttrParams == {None, <<" ">>, <<"u", "@">>}

\* What the engine may do when an endpoint's evaluation asks it.
EndpointEngineOutcomes(v) ==
    {EngineRaises(<<>>),
     EngineReturns(v, ReasonDict([kind |-> "FALLTHROUGH"])),
     EngineReturns(v, ReasonDict([kind |-> "ERROR", errorKind |-> "FLAG_NOT_FOUND"])),
     EngineReturns(v, ReasonDict([kind |-> PyNone]))}

\* The dict the endpoint returns for the evaluated context.
ContextDict(context) ==
    [kind |-> "multi",
     user |-> [kind |-> "user", key |-> context.user.key,
               anonymous |-> context.user.anonymous, attrs |-> context.user.attrs],
     container |-> [kind |-> "container", key |-> context.container.key]]

\* An error body that forgets the value.
ErrorBodyNoValue(error, errorKind) ==
    [error |-> error, reason |-> [kind |-> "ERROR", errorKind |-> errorKind]]

ErrorBody(error, errorKind) ==
    [error |-> error, value |-> DefaultMessage,
     reason |-> [kind |-> "ERROR", errorKind |-> errorKind]]

\* What calculate_hash_value returns when anything raises inside it: None.
NoHashInfo == [isNone |-> TRUE, hashValue |-> <<>>, salt |-> <<>>]

\* An attachment that lets the bucket decide: the hash takes the value's place.
AttachHashInfoDecides(result, hash_info) ==
    IF hash_info.isNone THEN result
    ELSE [value |-> hash_info.hashValue, reason |-> result.reason, hashInfo |-> hash_info]

\* if hash_info: result["hashInfo"] = hash_info
AttachHashInfo(result, hash_info) ==
    IF hash_info.isNone THEN result
    ELSE [value |-> result.value, reason |-> result.reason, hashInfo |-> hash_info]

\* flag_endpoint() for the query parameters contextKey, email, name, location
\* (params), with what the engine does if it is asked (engine), whether the SDK's
\* context builder raises (builderFails), whether the hash calculation raises inside
\* calculate_hash_value (hashFails) and whether something unforeseen raises after
\* the evaluation (fault). The response: [status, body], with the result that
\* evaluate_flag returned (evaluated) when the response is built from one.
FlagEndpointResponse(params, engine, builderFails, hashFails, fault) ==
    LET user == current_context.user
        fromCurrent == ~Truthy(params.contextKey)
        context_key == IF fromCurrent THEN user.key ELSE params.contextKey
        Attr(a) == IF fromCurrent /\ ~Truthy(params[a]) /\ a \in DOMAIN user.attrs
                   THEN user.attrs[a] ELSE params[a]
        attrs == [a \in AttrNames |-> Attr(a)]
        created == CreateContext(context_key, attrs, builderFails)
        result == EvaluateFlag(FlagKey, created.context, DefaultMessage, engine)
        hash_info == IF hashFails THEN NoHashInfo
                     ELSE CalculateHashValue(FlagKey, context_key, GetFlagSalt(FlagKey))
        attached == AttachHashInfo(result, hash_info)
    IN  IF fromCurrent /\ ~DictTruthy(current_context)
        THEN [status |-> 400, evaluated |-> <<>>,
              body |-> ErrorBody("Missing required parameter: contextKey",
                                 "MISSING_PARAMETER")]
        ELSE IF ~ValidateContextKey(context_key)
        THEN [status |-> 400, evaluated |-> <<>>,
              body |-> ErrorBody("Invalid contextKey", "INVALID_PARAMETER")]
        ELSE IF ~created.ok
        THEN [status |-> 400, evaluated |-> <<>>,
              body |-> ErrorBody("Failed to create context", "CONTEXT_CREATION_FAILED")]
        ELSE IF fault
        THEN [status |-> 500, evaluated |-> <<>>,
              body |-> ErrorBody("Internal server error", "INTERNAL_ERROR")]
        ELSE IF "hashInfo" \notin DOMAIN attached
        THEN [status |-> 200, evaluated |-> <<result>>,
              body |-> [value |-> attached.value, reason |-> attached.reason,
                        context |-> ContextDict(created.context)]]
        ELSE [status |-> 200, evaluated |-> <<result>>,
              body |-> [value |-> attached.value, reason |-> attached.reason,
                        hashInfo |-> attached.hashInfo,
                        context |-> ContextDict(created.context)]]

NoResponse ==
    [endpoint |-> "", params |-> [contextKey |-> None, email |-> None, name |-> None,
                                  location |-> None],
     status |-> 0, body |-> [none |-> TRUE]]

\* A request GET /api/flag. The record keeps the response with the request and the
\* evaluation it made.
FlagEndpoint ==
    /\ Serving
    /\ \E contextKey \in KeyParams, email \in AttrParams,
          engine \in EndpointEngineOutcomes(flagValue), builderFails \in BOOLEAN,
          hashFails \in BOOLEAN, fault \in BOOLEAN :
            LET params == [contextKey |-> contextKey, email |-> email, name |-> None,
                           location |-> None]
                r == FlagEndpointResponse(params, engine, builderFails, hashFails, fault)
            IN  lastResponse' = [endpoint |-> "flag", params |-> params,
                                 status |-> r.status, body |-> r.body,
                                 evaluated |-> r.evaluated]
    /\ UNCHANGED <<requestVars, lifecycleVars, current_context, flagValue, changes, listeners,
                   lastEval, streamVars>>

\* -------------------------------------------------------- GET /api/status

\* The request threads that may be inside get_status together.
StatusThreads == {"t1", "t2"}

IdleStatus ==
    [pc |-> "idle", connection_state |-> "none", status |-> 0,
     body |-> [connected |-> FALSE, sdkInitialized |-> FALSE,
               connectionState |-> "none", hasError |-> FALSE]]

\* A body that reports the client initialized whatever is_sdk_initialized() answered.
StatusBodyAssumeReady(connection_state, initialized) ==
    [connected |-> connection_state = "VALID",
     sdkInitialized |-> TRUE,
     connectionState |-> connection_state,
     hasError |-> FALSE]

\* The body of the 200 response of get_status, from its two locals.
StatusBody(connection_state, initialized) ==
    [connected |-> initialized /\ connection_state = "VALID",
     sdkInitialized |-> initialized,
     connectionState |-> connection_state,
     hasError |-> ~initialized /\ sdk_initialization_error # "None"]

\* The body of the 500 response of get_status.
StatusErrorBody ==
    [connected |-> FALSE, sdkInitialized |-> FALSE, connectionState |-> "OFF",
     hasError |-> TRUE]

\* get_status up to connection_state = get_sdk_connection_state(). raises: the call
\* raises, and the handler answers 500.
StatusRead(t) ==
    /\ Serving
    /\ statusReq[t].pc \in {"idle", "done"}
    /\ \E raises \in BOOLEAN :
        statusReq' = [statusReq EXCEPT ![t] =
                     IF raises
                     THEN [IdleStatus EXCEPT !.pc = "done", !.status = 500,
                                             !.body = StatusErrorBody]
                     ELSE [IdleStatus EXCEPT !.pc = "read",
                                             !.connection_state = GetSdkConnectionState]]
    /\ UNCHANGED <<lifecycleVars, current_context, flagValue, changes, listeners,
                   lastEval, lastResponse, streamVars, flagReq, lastBuild, lastHash, ctxReq>>

\* get_status from initialized = is_sdk_initialized() to the response. raises: the
\* call raises, and the handler answers 500.
StatusRespond(t) ==
    /\ statusReq[t].pc = "read"
    /\ \E raises \in BOOLEAN :
        statusReq' = [statusReq EXCEPT ![t] =
                     IF raises
                     THEN [statusReq[t] EXCEPT !.pc = "done", !.status = 500,
                                            !.body = StatusErrorBody]
                     ELSE [statusReq[t] EXCEPT
                            !.pc = "done", !.status = 200,
                            !.body = StatusBody(statusReq[t].connection_state,
                                                IsSdkInitialized)]]
    /\ UNCHANGED <<lifecycleVars, current_context, flagValue, changes, listeners,
                   lastEval, lastResponse, streamVars, flagReq, lastBuild, lastHash, ctxReq>>

\* ------------------------------------------------------ POST /api/context

\* The request threads that may be inside context_endpoint together.
Requests == {"r1", "r2", "r3"}

NoContext == [kind |-> "none"]
IdleRequest ==
    [pc |-> "idle", type |-> "none", email |-> None, name |-> None, location |-> None,
     needs_new_key |-> FALSE, new_context |-> NoContext, status |-> 0]

\* The body fields a request may carry: absent (None) or a string.
PostEmails == {None, <<" ">>, <<"u", "@">>}
PostNames == {None, <<"u">>}
PostLocations == {None, <<"u">>}

\* str.startswith('python-anon-')
StartsWithAnon(key) == Len(key) > 0 /\ key[1] = "python-anon-"

\* f'python-anon-{uuid.uuid4()}': a key no other request draws.
NewAnonKey(r) == <<"python-anon-", r>>

\* needs_new_key, computed from the global as one read.
NeedsNewKey(context) ==
    \/ ~DictTruthy(context)
    \/ context.kind # "multi"
    \/ ~context.user.anonymous
    \/ ~StartsWithAnon(context.user.key)

\* The dict the custom branch builds: the email as given is the key and the email
\* attribute; name and location as given when they are non-blank.
CustomContext(email, name, location) ==
    [kind |-> "multi",
     user |-> [kind |-> "user", key |-> email, anonymous |-> FALSE,
               attrs |-> [a \in {"email"}
                                \cup {b \in {"name"} : Truthy(name) /\ Len(Strip(name)) > 0}
                                \cup {b \in {"location"} :
                                        Truthy(location) /\ Len(Strip(location)) > 0}
                            |-> IF a = "email" THEN email
                                ELSE IF a = "name" THEN name ELSE location]],
     container |-> [kind |-> "container", key |-> <<"python-app">>]]

\* The dict the anonymous branch builds around context_key.
AnonymousContext(context_key, location) ==
    [kind |-> "multi",
     user |-> [kind |-> "user", key |-> context_key, anonymous |-> TRUE,
               attrs |-> [a \in {b \in {"location"} :
                                    Truthy(location) /\ Len(Strip(location)) > 0}
                            |-> location]],
     container |-> [kind |-> "container", key |-> <<"python-app">>]]

\* A failure path that puts the default context back.
ContextAfterFailureReset(context) == InitialContext

\* current_context after the 400 response or the except handler: neither assigns it.
ContextAfterFailure(context) == context

\* A POST arrives on thread r and its body is read. badBody: the body is not a JSON
\* object, and the handler answers 500. A custom request without an email is
\* answered 400; a custom request builds its dict here, from the body alone.
ContextPost(r) ==
    /\ ctxReq[r].pc = "idle"
    /\ \E type \in {"custom", "anonymous"}, email \in PostEmails, name \in PostNames,
          location \in PostLocations, badBody \in BOOLEAN :
        LET req == [IdleRequest EXCEPT !.type = type, !.email = email,
                                       !.name = name, !.location = location]
        IN  ctxReq' = [ctxReq EXCEPT ![r] =
                IF badBody
                THEN [IdleRequest EXCEPT !.pc = "done", !.status = 500]
                ELSE IF type = "custom"
                THEN IF ~Truthy(email) \/ Len(Strip(email)) = 0
                     THEN [req EXCEPT !.pc = "done", !.status = 400]
                     ELSE [req EXCEPT !.pc = "built",
                                      !.new_context = CustomContext(email, name, location)]
                ELSE [req EXCEPT !.pc = "check"]]
    /\ current_context' = IF ctxReq'[r].status \in {400, 500}
                          THEN ContextAfterFailure(current_context)
                          ELSE current_context
    /\ UNCHANGED <<lifecycleVars, flagValue, changes, listeners,
                   lastEval, lastResponse, streamVars, flagReq, lastBuild, lastHash, statusReq>>

\* The anonymous branch computes needs_new_key from the global current_context.
ContextCheck(r) ==
    /\ ctxReq[r].pc = "check"
    /\ ctxReq' = [ctxReq EXCEPT ![r].pc = "key",
                                ![r].needs_new_key = NeedsNewKey(current_context)]
    /\ UNCHANGED <<lifecycleVars, current_context, flagValue, changes, listeners,
                   lastEval, lastResponse, streamVars, flagReq, lastBuild, lastHash, statusReq>>

\* The anonymous branch picks its key, a new one or the one the global
\* current_context holds now, and builds its dict. raises: building the dict raises
\* (location.strip() of a location that is not a string), and the handler answers
\* 500.
ContextKey(r) ==
    /\ ctxReq[r].pc = "key"
    /\ \E raises \in BOOLEAN :
        LET context_key == IF ctxReq[r].needs_new_key THEN NewAnonKey(r)
                           ELSE current_context.user.key
        IN  IF raises
            THEN /\ ctxReq' = [ctxReq EXCEPT ![r].pc = "done", ![r].status = 500]
                 /\ current_context' = ContextAfterFailure(current_context)
            ELSE /\ ctxReq' = [ctxReq EXCEPT
                        ![r].pc = "built",
                        ![r].new_context =
                            AnonymousContext(context_key, ctxReq[r].location)]
                 /\ UNCHANGED current_context
    /\ UNCHANGED <<lifecycleVars, flagValue, changes, listeners,
                   lastEval, lastResponse, streamVars, flagReq, lastBuild, lastHash, statusReq>>

\* current_context = new_context, and the 200 response.
ContextWrite(r) ==
    /\ ctxReq[r].pc = "built"
    /\ current_context' = ctxReq[r].new_context
    /\ ctxReq' = [ctxReq EXCEPT ![r].pc = "done", ![r].status = 200]
    /\ flagReq' = [flagReq EXCEPT !.seen = IF flagReq.pc \in {"check", "get"}
                                           THEN @ \cup {ctxReq[r].new_context} ELSE @]
    /\ UNCHANGED <<lifecycleVars, flagValue, changes, listeners,
                   lastEval, lastResponse, streamVars, lastBuild, lastHash, statusReq>>

\* GET /api/context: the 200 response with current_context as its body.
ContextGet ==
    /\ lastResponse' = [endpoint |-> "context", status |-> 200, body |-> current_context]
    /\ UNCHANGED <<requestVars, lifecycleVars, current_context, flagValue, changes,
                   listeners, lastEval, streamVars>>

\* --------------------------- GET /api/flag without contextKey, read by read

\* flag_endpoint's fallback (no contextKey, email, name or location in the query)
\* reads the global current_context once for every .get it makes; another thread may
\* assign the global between two of them. seen: every value the global has held
\* since the request's first read.
IdleFlagRequest ==
    [pc |-> "idle", at |-> "none", context_key |-> None,
     attrs |-> [a \in AttrNames |-> None], seen |-> {}]

\* The order of the three attribute blocks.
NextAttr(a) == IF a = "email" THEN "name" ELSE IF a = "name" THEN "location" ELSE "none"

\* The request once the block of attribute a is over.
AfterAttr(req) ==
    IF NextAttr(req.at) = "none" THEN [req EXCEPT !.pc = "done", !.at = "none"]
    ELSE [req EXCEPT !.pc = "check", !.at = NextAttr(req.at)]

\* context_key = current_context.get('user', {}).get('key')
FlagFallbackKey ==
    /\ flagReq.pc = "idle"
    /\ DictTruthy(current_context)
    /\ current_context.kind = "multi"
    /\ flagReq' = [flagReq EXCEPT !.pc = "check", !.at = "email",
                                  !.context_key = current_context.user.key,
                                  !.seen = {current_context}]
    /\ UNCHANGED <<lifecycleVars, current_context, flagValue, changes, listeners,
                   lastEval, lastResponse, streamVars, lastBuild, lastHash, ctxReq,
                   statusReq>>

\* if not email and 'email' in current_context.get('user', {}): (and so for name and
\* location)
FlagFallbackCheck ==
    /\ flagReq.pc = "check"
    /\ flagReq' = IF flagReq.at \in DOMAIN current_context.user.attrs
                  THEN [flagReq EXCEPT !.pc = "get"]
                  ELSE AfterAttr(flagReq)
    /\ UNCHANGED <<lifecycleVars, current_context, flagValue, changes, listeners,
                   lastEval, lastResponse, streamVars, lastBuild, lastHash, ctxReq,
                   statusReq>>

\* email = current_context.get('user', {}).get('email') (and so for name and
\* location): None when the dict the global holds now has no such attribute.
FlagFallbackGet ==
    /\ flagReq.pc = "get"
    /\ LET a == flagReq.at
           v == IF a \in DOMAIN current_context.user.attrs
                THEN current_context.user.attrs[a] ELSE None
       IN  flagReq' = AfterAttr([flagReq EXCEPT !.attrs[a] = v])
    /\ UNCHANGED <<lifecycleVars, current_context, flagValue, changes, listeners,
                   lastEval, lastResponse, streamVars, lastBuild, lastHash, ctxReq,
                   statusReq>>

\* ------------------------------------------------------- GET /api/sse

Streams == {"s1", "s2"}

\* "timestamp": int(time.time()), the wall clock's reading, kept symbolic.
TimeStamp == "int(time.time())"

\* A payload that carries the reason's kind where the flag value belongs.
SseDataKindAsMessage(result, context_key) ==
    [message |-> result.reason.kind,
     hashInfo |-> CalculateHashValue(FlagKey, context_key, GetFlagSalt(FlagKey)),
     timestamp |-> TimeStamp]

\* The event payload built from an evaluation result (sse_data): the flag value as
\* "message", result.get("hashInfo") and the timestamp.
SseData(result, context_key) ==
    LET hash_info == CalculateHashValue(FlagKey, context_key, GetFlagSalt(FlagKey))
    IN  [message |-> AttachHashInfo(result, hash_info).value,
         hashInfo |-> hash_info,
         timestamp |-> TimeStamp]

\* The evaluations a stream makes ask the engine for the flag's current value; the
\* engine answers or raises.
StreamEngineOutcomes(v) ==
    {EngineRaises(<<"Network error">>),
     EngineReturns(v, ReasonDict([kind |-> "FALLTHROUGH"]))}

DataEvent(src, data) == [src |-> src, data |-> data]
ErrorEvent ==
    DataEvent("error", [error |-> "Stream error", message |-> "str(e)",
                        timestamp |-> TimeStamp])

\* A handler that ends the generator without a word.
HandlerYieldsNothing == <<>>

\* What the handler of an unforeseen exception in generate() yields before the
\* generator ends: the error event, once.
HandlerYields == <<ErrorEvent>>

\* A generator that goes straight to the registration of the listener.
StreamStartPcNoSnapshot == "yielded"

\* Where a connection's generator starts when the response begins to stream: at the
\* evaluation of the initial snapshot.
StreamStartPc == "open"

\* A get that takes the newest payload.
QueueGetNewest(q) == [item |-> q[Len(q)], rest |-> SubSeq(q, 1, Len(q) - 1)]

\* update_queue.get(block=False) on a non-empty queue: the oldest payload.
QueueGet(q) == [item |-> Head(q), rest |-> Tail(q)]

\* A heartbeat check that fires a second early.
HeartbeatDueEarly(elapsed) == elapsed >= heartbeat_interval - 1

\* A heartbeat check with > for >=.
HeartbeatDueLate(elapsed) == elapsed > heartbeat_interval

\* current_time - last_heartbeat >= heartbeat_interval
HeartbeatDue(elapsed) == elapsed >= heartbeat_interval

\* A listener that puts nothing when its evaluation fell back to the default.
ListenerPutsUnlessFailed(result, context_key) ==
    IF result.reason.kind = "ERROR" THEN <<>> ELSE <<SseData(result, context_key)>>

\* What flag_value_change_listener puts into update_queue for an evaluation result.
ListenerPuts(result, context_key) == <<SseData(result, context_key)>>

Min(a, b) == IF a <= b THEN a ELSE b

\* A setup that opens the stream without looking at what create_context did.
SseSetupNoBuildCheck(contextKey, builderFails, fault) ==
    IF ~Truthy(contextKey)
    THEN [status |-> 400, body |-> [error |-> "Missing required parameter: contextKey"]]
    ELSE IF ~ValidateContextKey(contextKey)
    THEN [status |-> 400, body |-> [error |-> "Invalid contextKey"]]
    ELSE IF fault
    THEN [status |-> 500, body |-> [error |-> "Failed to establish SSE connection"]]
    ELSE [status |-> 200, body |-> [stream |-> "text/event-stream"]]

\* sse_endpoint() up to the Response, for the query parameter contextKey, with
\* whether the SDK's context builder raises (builderFails) and whether something
\* unforeseen raises (fault): 400 for a missing or invalid contextKey or a context
\* that cannot be built, 500 for anything unforeseen, else the streaming response.
SseSetup(contextKey, builderFails, fault) ==
    LET created == CreateContext(contextKey, [a \in AttrNames |-> None], builderFails)
    IN  IF ~Truthy(contextKey)
        THEN [status |-> 400, body |-> [error |-> "Missing required parameter: contextKey"]]
        ELSE IF ~ValidateContextKey(contextKey)
        THEN [status |-> 400, body |-> [error |-> "Invalid contextKey"]]
        ELSE IF ~created.ok
        THEN [status |-> 400, body |-> [error |-> "Failed to create context"]]
        ELSE IF fault
        THEN [status |-> 500, body |-> [error |-> "Failed to establish SSE connection"]]
        ELSE [status |-> 200, body |-> [stream |-> "text/event-stream"]]

\* A request GET /api/sse: the answer of the setup, and when it is the streaming
\* response the connection's generator is started by the server.
SseRequest(s) ==
    /\ Serving
    /\ pc[s] = "none"
    /\ \E contextKey \in KeyParams, builderFails \in BOOLEAN, fault \in BOOLEAN :
        LET r == SseSetup(contextKey, builderFails, fault)
            params == [contextKey |-> contextKey, email |-> None, name |-> None,
                       location |-> None]
        IN  /\ lastResponse' = [endpoint |-> "sse", params |-> params,
                                status |-> r.status, body |-> r.body,
                                builderFails |-> builderFails]
            /\ IF r.status = 200
               THEN /\ pc' = [pc EXCEPT ![s] = StreamStartPc]
                    /\ streamKey' = [streamKey EXCEPT ![s] = contextKey]
               ELSE /\ pc' = [pc EXCEPT ![s] = "rejected"]
                    /\ UNCHANGED streamKey
    /\ UNCHANGED <<requestVars, lifecycleVars, current_context, flagValue, changes, listeners,
                   lastEval, queue, listener_registered, sinceHb, openFor, emitted,
                   heartbeats, enqueued, notified, evalFailed, closedBy, evaluations,
                   sinceAct>>

\* generate(), from its start to the first yield: the initial evaluation and the
\* initial data event. fault: something unforeseen raises before the yield, and the
\* handler yields the error event and the generator ends.
SendInitial(s) ==
    /\ pc[s] = "open"
    /\ \E engine \in StreamEngineOutcomes(flagValue), fault \in BOOLEAN :
        LET result == EvaluateFlag(FlagKey, None, DefaultMessage, engine)
        IN  IF fault
            THEN /\ emitted' = [emitted EXCEPT ![s] = @ \o HandlerYields]
                 /\ pc' = [pc EXCEPT ![s] = "closed"]
                 /\ closedBy' = [closedBy EXCEPT ![s] = "error"]
                 /\ UNCHANGED evalFailed
            ELSE /\ emitted' = [emitted EXCEPT ![s] =
                        Append(@, DataEvent("initial", SseData(result, streamKey[s])))]
                 /\ pc' = [pc EXCEPT ![s] = "yielded"]
                 /\ evalFailed' = [evalFailed EXCEPT ![s] = @ \/ result.reason.kind = "ERROR"]
                 /\ UNCHANGED closedBy
    /\ evaluations' = [evaluations EXCEPT ![s] = @ + 1]
    /\ sinceAct' = [sinceAct EXCEPT ![s] = 0]
    /\ UNCHANGED <<requestVars, lifecycleVars, current_context, flagValue, changes, listeners,
                   lastEval, lastResponse, streamKey, queue, listener_registered,
                   sinceHb, openFor, heartbeats, enqueued, notified>>

\* The client goes away while the generator is suspended at the initial yield: the
\* server closes the generator, which gets GeneratorExit there.
Disconnect(s) ==
    /\ pc[s] = "yielded"
    /\ pc' = [pc EXCEPT ![s] = "closed"]
    /\ closedBy' = [closedBy EXCEPT ![s] = "exit"]
    /\ UNCHANGED <<requestVars, lifecycleVars, current_context, flagValue, changes, listeners,
                   lastEval, lastResponse, streamKey, queue, listener_registered,
                   sinceHb, openFor, emitted, heartbeats, enqueued, notified, evalFailed,
                   evaluations, sinceAct>>

\* A registration that does not ask whether the client is ready.
CanRegisterUnlessRaises(regFails) == GetLdClient # NoClient /\ ~regFails

\* The listener gets registered: `if client and is_sdk_initialized()` holds and
\* add_flag_value_change_listener does not raise (regFails).
CanRegister(regFails) == GetLdClient # NoClient /\ IsSdkInitialized /\ ~regFails

\* generate(), resumed after the initial yield up to the loop: the listener is
\* registered with the flag tracker when the client is ready (registration may raise:
\* regFails), and last_heartbeat is set.
Subscribe(s) ==
    /\ pc[s] = "yielded"
    /\ \E regFails \in BOOLEAN :
        IF CanRegister(regFails)
        THEN /\ listeners' = listeners \cup {s}
             /\ listener_registered' = [listener_registered EXCEPT ![s] = TRUE]
        ELSE /\ listener_registered' = [listener_registered EXCEPT ![s] = FALSE]
             /\ UNCHANGED listeners
    /\ sinceHb' = [sinceHb EXCEPT ![s] = 0]
    /\ openFor' = [openFor EXCEPT ![s] = 0]
    /\ pc' = [pc EXCEPT ![s] = "loop"]
    /\ UNCHANGED <<requestVars, lifecycleVars, current_context, flagValue, changes, lastEval,
                   lastResponse, streamKey, queue, emitted, heartbeats, enqueued,
                   notified, evalFailed, closedBy, evaluations, sinceAct>>

\* One turn of the generator's loop, from the top of `while True` to time.sleep:
\* at most one payload is taken from the queue and yielded, then the heartbeat is
\* yielded if it is due. fault: something unforeseen raises (json.dumps of the
\* payload taken, when there is one), and the handler yields the error event and
\* the generator ends. closeAt: the client is gone when that yield is written, and
\* the server closes the generator there (GeneratorExit).
LoopIteration(s) ==
    /\ pc[s] = "loop"
    /\ \E fault \in BOOLEAN, closeAt \in {"none", "update", "heartbeat"} :
        LET hasUpdate == Len(queue[s]) > 0
            got == QueueGet(queue[s])
            due == HeartbeatDue(sinceHb[s])
            sent == IF hasUpdate
                    THEN Append(emitted[s], DataEvent("update", got.item))
                    ELSE emitted[s]
        IN  /\ queue' = [queue EXCEPT ![s] = IF hasUpdate THEN got.rest ELSE @]
            /\ IF fault
               THEN /\ emitted' = [emitted EXCEPT ![s] = @ \o HandlerYields]
                    /\ pc' = [pc EXCEPT ![s] = "closed"]
                    /\ closedBy' = [closedBy EXCEPT ![s] = "error"]
                    /\ UNCHANGED <<heartbeats, sinceHb>>
               ELSE IF hasUpdate /\ closeAt = "update"
               THEN /\ emitted' = [emitted EXCEPT ![s] = sent]
                    /\ pc' = [pc EXCEPT ![s] = "closed"]
                    /\ closedBy' = [closedBy EXCEPT ![s] = "exit"]
                    /\ UNCHANGED <<heartbeats, sinceHb>>
               ELSE /\ emitted' = [emitted EXCEPT ![s] = sent]
                    /\ IF due
                       THEN /\ heartbeats' = [heartbeats EXCEPT ![s] =
                                                Min(@ + 1, MaxHeartbeats)]
                            /\ IF closeAt = "heartbeat"
                               THEN /\ pc' = [pc EXCEPT ![s] = "closed"]
                                    /\ closedBy' = [closedBy EXCEPT ![s] = "exit"]
                                    /\ UNCHANGED sinceHb
                               ELSE /\ pc' = [pc EXCEPT ![s] = "sleeping"]
                                    /\ sinceHb' = [sinceHb EXCEPT ![s] = 0]
                                    /\ UNCHANGED closedBy
                       ELSE /\ pc' = [pc EXCEPT ![s] = "sleeping"]
                            /\ UNCHANGED <<heartbeats, sinceHb, closedBy>>
            /\ sinceAct' = [sinceAct EXCEPT ![s] =
                    IF fault \/ hasUpdate \/ due THEN 0 ELSE @]
    /\ UNCHANGED <<requestVars, lifecycleVars, current_context, flagValue, changes, listeners,
                   lastEval, lastResponse, streamKey, listener_registered, openFor,
                   enqueued, notified, evalFailed, evaluations>>

\* time.sleep(1) returns: a second has passed.
Wake(s) ==
    /\ pc[s] = "sleeping"
    /\ pc' = [pc EXCEPT ![s] = "loop"]
    /\ sinceHb' = [sinceHb EXCEPT ![s] = @ + SleepSeconds]
    /\ openFor' = [openFor EXCEPT ![s] = Min(@ + SleepSeconds, MaxOpen)]
    /\ sinceAct' = [sinceAct EXCEPT ![s] = Min(@ + SleepSeconds, heartbeat_interval)]
    /\ UNCHANGED <<requestVars, lifecycleVars, current_context, flagValue, changes, listeners,
                   lastEval, lastResponse, streamKey, queue, listener_registered,
                   emitted, heartbeats, enqueued, notified, evalFailed, closedBy,
                   evaluations>>

\* A flag tracker that calls the listener of every connection.
ListenerTargetsAll == Streams

\* The connections whose listener the flag tracker calls on a change: those that
\* registered one with add_flag_value_change_listener.
ListenerTargets == listeners

\* The engine's update thread: the flag's value changes, and the flag tracker calls
\* every listener it holds. flag_value_change_listener evaluates the flag again
\* (the engine answers or raises) and puts the payload into its connection's queue.
FlagChange ==
    /\ changes < MaxChanges
    /\ ld_client # NoClient
    /\ engineReady
    /\ \E v \in FlagValues \ {flagValue}, raises \in BOOLEAN :
        LET engine == IF raises THEN EngineRaises(<<"Network error">>)
                      ELSE EngineReturns(v, ReasonDict([kind |-> "FALLTHROUGH"]))
            result == EvaluateFlag(FlagKey, None, DefaultMessage, engine)
        IN  /\ flagValue' = v
            /\ queue' = [s \in Streams |->
                            IF s \in ListenerTargets
                            THEN queue[s] \o ListenerPuts(result, streamKey[s])
                            ELSE queue[s]]
            /\ enqueued' = [s \in Streams |->
                            IF s \in ListenerTargets
                            THEN enqueued[s] \o ListenerPuts(result, streamKey[s])
                            ELSE enqueued[s]]
            /\ notified' = [s \in Streams |->
                            IF s \in ListenerTargets THEN notified[s] + 1 ELSE notified[s]]
            /\ evalFailed' = [s \in Streams |->
                            IF s \in ListenerTargets
                            THEN evalFailed[s] \/ result.reason.kind = "ERROR"
                            ELSE evalFailed[s]]
            /\ evaluations' = [s \in Streams |->
                            IF s \in ListenerTargets THEN evaluations[s] + 1
                            ELSE evaluations[s]]
    /\ changes' = changes + 1
    /\ UNCHANGED <<requestVars, lifecycleVars, current_context, listeners, lastEval, lastResponse,
                   pc, streamKey, listener_registered, sinceHb, openFor, emitted,
                   heartbeats, closedBy, sinceAct>>

\* ------------------------------------------------------------ specifications

Init ==
    /\ ld_client = NoClient
    /\ sdk_initialized = FALSE
    /\ sdk_initialization_error = "None"
    /\ current_context = InitialContext
    /\ initPc = "idle"
    /\ initWaited = 0
    /\ initResult = "none"
    /\ starts = 0
    /\ sdkKeySet \in BOOLEAN
    /\ engineReady = FALSE
    /\ flagValue = "A"
    /\ changes = 0
    /\ listeners = {}
    /\ lastEval = NoEval
    /\ lastResponse = NoResponse
    /\ pc = [s \in Streams |-> "none"]
    /\ streamKey = [s \in Streams |-> <<>>]
    /\ queue = [s \in Streams |-> <<>>]
    /\ listener_registered = [s \in Streams |-> FALSE]
    /\ sinceHb = [s \in Streams |-> 0]
    /\ openFor = [s \in Streams |-> 0]
    /\ emitted = [s \in Streams |-> <<>>]
    /\ heartbeats = [s \in Streams |-> 0]
    /\ enqueued = [s \in Streams |-> <<>>]
    /\ notified = [s \in Streams |-> 0]
    /\ evalFailed = [s \in Streams |-> FALSE]
    /\ closedBy = [s \in Streams |-> "none"]
    /\ evaluations = [s \in Streams |-> 0]
    /\ sinceAct = [s \in Streams |-> 0]
    /\ lastBuild = NoBuild
    /\ lastHash = NoHash
    /\ ctxReq = [r \in Requests |-> IdleRequest]
    /\ statusReq = [t \in StatusThreads |-> IdleStatus]
    /\ flagReq = IdleFlagRequest

Lifecycle ==
    \/ /\ ModuleLoad
       /\ UNCHANGED <<requestVars, current_context, flagValue, changes, listeners, lastEval,
                      lastResponse, streamVars>>
    \/ /\ CallInitialize
       /\ UNCHANGED <<requestVars, current_context, flagValue, changes, listeners, lastEval,
                      lastResponse, streamVars>>
    \/ /\ InitializePoll
       /\ UNCHANGED <<requestVars, current_context, flagValue, changes, listeners, lastEval,
                      lastResponse, streamVars>>
    \/ /\ EngineConnects
       /\ UNCHANGED <<requestVars, current_context, flagValue, changes, listeners, lastEval,
                      lastResponse, streamVars>>

\* The lifecycle and direct calls of evaluate_flag.
Next == Lifecycle \/ CallEvaluateFlag

Spec == Init /\ [][Next]_vars

\* The thread inside initialize_launchdarkly_sdk() keeps running: a turn of the wait
\* loop that can be taken is taken. Nothing is assumed of the engine.
WaitLoopTurn ==
    /\ InitializePollWith(FALSE)
    /\ UNCHANGED <<requestVars, current_context, flagValue, changes, listeners, lastEval,
                   lastResponse, streamVars>>

SpecFair == Spec /\ WF_vars(WaitLoopTurn)

\* The lifecycle and requests to GET /api/flag.
Startup ==
    /\ (ModuleLoad \/ InitializePoll \/ EngineConnects)
    /\ UNCHANGED <<requestVars, current_context, flagValue, changes, listeners, lastEval,
                   lastResponse, streamVars>>

\* The start of the service and requests to GET /api/flag.
NextFlag == Startup \/ FlagEndpoint

SpecFlag == Init /\ [][NextFlag]_vars

\* One connection to GET /api/sse, the engine changing the flag under it.
OneStream == {"s1"}

NextSSE ==
    \/ Startup
    \/ FlagChange
    \/ \E s \in OneStream :
        \/ SseRequest(s)
        \/ SendInitial(s)
        \/ Disconnect(s)
        \/ Subscribe(s)
        \/ LoopIteration(s)
        \/ Wake(s)

SpecSSE == Init /\ [][NextSSE]_vars

\* GET /api/flag requests and one connection to GET /api/sse in the first seconds of
\* its loop: every place where hashInfo is attached to an evaluation result. The two
\* handlers share nothing but the SDK; the flag requests are taken before the stream
\* is asked for and after one that ended with its first event.
NextAttach ==
    \/ Startup
    \/ FlagEndpoint /\ \A s \in OneStream :
                            pc[s] \in {"none", "closed"} /\ Len(emitted[s]) <= 1
    \/ FlagChange /\ changes < MaxChangesTwo
    \/ \E s \in OneStream :
        \/ SseRequest(s) \/ SendInitial(s) \/ Disconnect(s) \/ Subscribe(s)
        \/ LoopIteration(s)
        \/ Wake(s) /\ openFor[s] < MaxSecondsTwo

SpecAttach == Init /\ [][NextAttach]_vars

\* Two connections to GET /api/sse open together, each with its own closure and
\* queue, for the first seconds of their loops.
NextTwoStreams ==
    \/ Startup
    \/ FlagChange /\ changes < MaxChangesTwo
    \/ \E s \in Streams :
        \/ SseRequest(s)
        \/ SendInitial(s)
        \/ Disconnect(s)
        \/ Subscribe(s)
        \/ LoopIteration(s)
        \/ Wake(s) /\ openFor[s] < MaxSecondsTwo

SpecTwoStreams == Init /\ [][NextTwoStreams]_vars

\* Direct calls of the two context builders.
NextBuild == CallCreateContext \/ CallBuildContext

SpecBuild == Init /\ [][NextBuild]_vars

\* Direct calls of calculate_hash_value.
NextHash == CallCalculateHashValue

SpecHash == Init /\ [][NextHash]_vars

\* Requests to POST /api/context on concurrent threads.
NextContext ==
    \E r \in Requests :
        \/ ContextPost(r)
        \/ ContextCheck(r)
        \/ ContextKey(r)
        \/ ContextWrite(r)

SpecContext == Init /\ [][NextContext]_vars

\* A GET /api/flag request that falls back to current_context, beside two threads of
\* POST /api/context.
FallbackWriters == {"r1", "r2"}

NextFallback ==
    \/ \E r \in FallbackWriters :
        \/ ContextPost(r)
        \/ ContextCheck(r)
        \/ ContextKey(r)
        \/ ContextWrite(r)
    \/ FlagFallbackKey
    \/ FlagFallbackCheck
    \/ FlagFallbackGet

SpecFallback == Init /\ [][NextFallback]_vars

\* Requests to GET /api/context beside two threads of POST /api/context.
NextUpdate ==
    \/ \E r \in FallbackWriters :
        \/ ContextPost(r)
        \/ ContextCheck(r)
        \/ ContextKey(r)
        \/ ContextWrite(r)
    \/ ContextGet

SpecUpdate == Init /\ [][NextUpdate]_vars

\* The start of the service and requests to GET /api/status.
NextStatus ==
    \/ Startup
    \/ \E t \in StatusThreads : StatusRead(t) \/ StatusRespond(t)

SpecStatus == Init /\ [][NextStatus]_vars

\* The connection's loop runs on its own thread and time.sleep returns: a turn of the
\* loop that can be taken is taken.
SpecSSEFair ==
    /\ SpecSSE
    /\ \A s \in OneStream : WF_vars(LoopIteration(s)) /\ WF_vars(Wake(s))

\* ------------------------------------------------------------------ claims

NotReadyReason == [kind |-> "ERROR", errorKind |-> "CLIENT_NOT_READY"]

\* C1: a call of evaluate_flag made while the client is not ready (is_sdk_initialized()
\* is false or the client handle is None) returns exactly the default value with the
\* reason {kind: ERROR, errorKind: CLIENT_NOT_READY}, and the engine is not called.
C1_NotReadyServesDefault ==
    (lastEval.made /\ (~lastEval.ready \/ lastEval.client = NoClient)) =>
        /\ lastEval.result =
                [value |-> lastEval.default_value, reason |-> NotReadyReason]
        /\ ~lastEval.engineCalled

\* A call made with a client handle that has not become ready (the start timed out).
C1_Witness ==
    /\ lastEval.made
    /\ ~lastEval.ready
    /\ lastEval.client # NoClient
    /\ ~lastEval.engineCalled
    /\ lastEval.result.reason = NotReadyReason

\* C2: when the engine call raises, evaluate_flag returns the default value with the
\* reason {kind: ERROR, errorKind: EXCEPTION, errorMessage: m}, m a non-empty string.
C2_ExceptionHasMessage ==
    (lastEval.made /\ lastEval.engineCalled /\ lastEval.engine.raises) =>
        /\ lastEval.result.value = lastEval.default_value
        /\ DOMAIN lastEval.result.reason = {"kind", "errorKind", "errorMessage"}
        /\ lastEval.result.reason.kind = "ERROR"
        /\ lastEval.result.reason.errorKind = "EXCEPTION"
        /\ lastEval.result.reason.errorMessage # ""

\* C3: every result of evaluate_flag has a value and a reason whose kind is present
\* and not None.
C3_ResultHasValueAndKind ==
    lastEval.made =>
        /\ "value" \in DOMAIN lastEval.result
        /\ "kind" \in DOMAIN lastEval.result.reason
        /\ lastEval.result.reason.kind # PyNone

\* The evaluation that a response of /api/flag reports fell back to the default: the
\* client was not ready, or the engine call raised.
EvaluationFailed(body) ==
    /\ "errorKind" \in DOMAIN body.reason
    /\ body.reason.errorKind \in {"CLIENT_NOT_READY", "EXCEPTION"}

\* C4: every response of GET /api/flag, whatever its status (200, 400 or 500), has a
\* value field; it is the default "Hello from Python!" when the status is 400 or 500
\* and when the evaluation failed.
C4_FlagResponseHasValue ==
    lastResponse.endpoint = "flag" =>
        /\ lastResponse.status \in {200, 400, 500}
        /\ "value" \in DOMAIN lastResponse.body
        /\ (lastResponse.status # 200 \/ EvaluationFailed(lastResponse.body))
                => lastResponse.body.value = DefaultMessage

\* A 200 response whose evaluation raised in the engine.
C4_Witness ==
    /\ lastResponse.endpoint = "flag"
    /\ lastResponse.status = 200
    /\ EvaluationFailed(lastResponse.body)
    /\ lastResponse.body.reason.errorKind = "EXCEPTION"
    /\ lastResponse.body.value = DefaultMessage

\* C5: in every state in which a connection is closed, its listener is no longer
\* registered with the engine.
C5_ClosedStreamDeregistered ==
    \A s \in Streams : pc[s] = "closed" => s \notin listeners

\* The payloads of the update events written to stream s, in order.
UpdatesSent(s) ==
    LET u == SelectSeq(emitted[s], LAMBDA e : e.src = "update")
    IN  [i \in 1..Len(u) |-> u[i].data]

\* C6: on a connection no update event is written before the initial snapshot: an
\* update event is never the first data event, and the first is the snapshot.
C6_SnapshotBeforeUpdates ==
    \A s \in Streams : \A i \in 1..Len(emitted[s]) :
        emitted[s][i].src = "update" => (i > 1 /\ emitted[s][1].src = "initial")

\* The snapshot followed by an update.
C6_Witness ==
    \E s \in Streams :
        /\ Len(emitted[s]) >= 2
        /\ emitted[s][1].src = "initial"
        /\ emitted[s][2].src = "update"

\* C7: at every moment the updates written to a connection are a prefix of the
\* payloads its listener has put into the queue: same order, none skipped, none twice.
C7_UpdatesInQueueOrder ==
    \A s \in Streams :
        /\ Len(UpdatesSent(s)) <= Len(enqueued[s])
        /\ UpdatesSent(s) = SubSeq(enqueued[s], 1, Len(UpdatesSent(s)))

\* Two different payloads were waiting in the queue together, and both were written.
C7_Witness ==
    \E s \in Streams :
        /\ Len(UpdatesSent(s)) = 2
        /\ UpdatesSent(s)[1] # UpdatesSent(s)[2]
        /\ Len(queue[s]) = 0
        /\ heartbeats[s] = 0
        /\ openFor[s] = 1

\* C8: while a connection is open, each call of its listener is followed by exactly
\* one further data event: the updates written never outnumber the calls, and the
\* n-th call is eventually followed by the n-th update unless the connection closes.
C8_NotificationEmitted ==
    /\ [](\A s \in OneStream : Len(UpdatesSent(s)) <= notified[s])
    /\ \A s \in OneStream : \A n \in 1..MaxChanges :
            (notified[s] >= n) ~> (pc[s] = "closed" \/ Len(UpdatesSent(s)) >= n)

\* A listener was called once and its payload was written after the snapshot, on a
\* connection that is still open.
C8_Witness ==
    \E s \in OneStream :
        /\ notified[s] = 1
        /\ Len(emitted[s]) = 2
        /\ emitted[s][2].src = "update"
        /\ pc[s] = "sleeping"

\* C9: with the client ready, the listener registered and the connection open, the
\* connection shows the flag's current value once nothing is left to deliver: the
\* last message written is the engine's current value.
C9_StreamSynchronized ==
    \A s \in Streams :
        (/\ pc[s] \in {"loop", "sleeping"}
         /\ IsSdkInitialized
         /\ listener_registered[s]
         /\ ~evalFailed[s]
         /\ queue[s] = <<>>)
            => emitted[s][Len(emitted[s])].data.message = flagValue

\* C10: a connection that has been in its loop for more than 15 seconds with no
\* payload put into its queue has written at least one heartbeat line and no data
\* event other than the initial snapshot.
C10_HeartbeatWhenIdle ==
    \A s \in Streams :
        (/\ pc[s] \in {"loop", "sleeping"}
         /\ openFor[s] > heartbeat_interval
         /\ enqueued[s] = <<>>)
            => /\ heartbeats[s] >= 1
               /\ Len(emitted[s]) = 1
               /\ emitted[s][1].src = "initial"

\* An idle connection past its first heartbeat.
C10_Witness ==
    \E s \in Streams :
        /\ pc[s] = "sleeping"
        /\ openFor[s] = heartbeat_interval + 1
        /\ enqueued[s] = <<>>
        /\ heartbeats[s] = 1
        /\ Len(emitted[s]) = 1


\* The values evaluate_flag can return for a stream: the engine's or the default.
StreamMessages == FlagValues \cup {DefaultMessage}

ErrorsSent(s) == SelectSeq(emitted[s], LAMBDA e : e.src = "error")

\* C12: an error raised in a connection's generator is reported as exactly one error
\* event, which is the last event of the connection; only an error produces an error
\* event; and once the generator has ended it stays ended and writes nothing more.
C12_ErrorIsFinalEvent ==
    /\ [](\A s \in Streams :
            IF closedBy[s] = "error"
            THEN /\ pc[s] = "closed"
                 /\ Len(ErrorsSent(s)) = 1
                 /\ emitted[s][Len(emitted[s])].src = "error"
            ELSE Len(ErrorsSent(s)) = 0)
    /\ [][\A s \in Streams :
            pc[s] = "closed" =>
                /\ pc'[s] = "closed"
                /\ emitted'[s] = emitted[s]
                /\ heartbeats'[s] = heartbeats[s]]_vars

\* A connection that wrote its snapshot and an update, then failed in its loop.
C12_Witness ==
    \E s \in Streams :
        /\ closedBy[s] = "error"
        /\ Len(emitted[s]) = 3
        /\ emitted[s][1].src = "initial"
        /\ emitted[s][2].src = "update"
        /\ heartbeats[s] = 0


\* A contextKey parameter that is missing, empty or whitespace-only.
BadKeyParam(k) == k = None \/ k = <<>> \/ \A i \in 1..Len(k) : k[i] = " "

\* C13: a request GET /api/sse whose contextKey is missing, empty or whitespace-only,
\* or whose context cannot be built, is answered 400 and its stream never opens: no
\* evaluation is made for it, nothing is written and no listener is registered.
C13_BadStreamRequestRejected ==
    \A s \in OneStream :
        (/\ lastResponse.endpoint = "sse"
         /\ BadKeyParam(lastResponse.params.contextKey) \/ lastResponse.builderFails)
            => /\ lastResponse.status = 400
               /\ pc[s] = "rejected"
               /\ evaluations[s] = 0
               /\ emitted[s] = <<>>
               /\ heartbeats[s] = 0
               /\ s \notin listeners
               /\ ~listener_registered[s]

\* A valid contextKey whose context the builder could not make, answered 400 while
\* the flag goes on changing.
C13_Witness ==
    \E s \in OneStream :
        /\ lastResponse.endpoint = "sse"
        /\ ~BadKeyParam(lastResponse.params.contextKey)
        /\ lastResponse.builderFails
        /\ lastResponse.status = 400
        /\ lastResponse.body.error = "Failed to create context"
        /\ pc[s] = "rejected"
        /\ changes > 0


\* C14: a call of initialize_launchdarkly_sdk() made once the client is ready returns
\* True, makes no new client and does not touch the engine, and leaves the globals,
\* get_ld_client(), is_sdk_initialized() and get_sdk_connection_state() as they were.
C14_StartIdempotentOnceReady ==
    [][(starts' = starts + 1 /\ IsSdkInitialized) =>
            /\ initResult' = "True"
            /\ initPc' = "done"
            /\ ld_client' = ld_client
            /\ engineReady' = engineReady
            /\ sdk_initialized' = sdk_initialized
            /\ sdk_initialization_error' = sdk_initialization_error
            /\ GetLdClient' = GetLdClient
            /\ IsSdkInitialized'
            /\ GetSdkConnectionState' = "VALID"]_vars

\* The second call, made on a ready client: it returned True and the client is still
\* the first one.
C14_Witness ==
    /\ starts = 2
    /\ initResult = "True"
    /\ initPc = "done"
    /\ ld_client = 1
    /\ IsSdkInitialized


\* C15: after a start that failed (no key, timeout, or an exception) the call has
\* returned False, is_sdk_initialized() is false, get_sdk_connection_state() is OFF
\* and get_sdk_initialization_error() is a message; and an evaluation made then
\* returns the caller's default without asking the engine.
C15_FailedStartDegrades ==
    /\ []((initPc = "done" /\ initResult = "False") =>
            /\ ~IsSdkInitialized
            /\ GetSdkConnectionState = "OFF"
            /\ GetSdkInitializationError # "None")
    /\ [][(initPc = "done" /\ initResult = "False" /\ lastEval' # lastEval) =>
            /\ lastEval'.made
            /\ lastEval'.result.value = lastEval'.default_value
            /\ ~lastEval'.engineCalled]_vars

\* A start that gave up on an engine that connected afterwards, and an evaluation
\* made since that was served the default.
C15_Witness ==
    /\ initPc = "done"
    /\ initResult = "False"
    /\ ld_client # NoClient
    /\ engineReady
    /\ lastEval.made
    /\ lastEval.client = ld_client
    /\ lastEval.result.value = lastEval.default_value


\* The lifecycle state of the client, read off the program: never started, a call
\* waiting in its loop, the last call failed, or ready.
ClientState ==
    IF initPc = "waiting" THEN "INITIALIZING"
    ELSE IF starts = 0 THEN "UNINITIALIZED"
    ELSE IF initResult = "False" THEN "ERROR"
    ELSE "READY"

C17_ClientStateOnlyForward ==
    [][/\ ClientState = "ERROR" => ClientState' = "ERROR"
       /\ ClientState = "READY" => ClientState' \in {"READY", "ERROR"}
       /\ ClientState = "INITIALIZING" => ClientState' # "UNINITIALIZED"]_vars


\* C18: a request GET /api/flag without a contextKey (absent or empty) is answered 400
\* with an error naming contextKey, the default value and the reason
\* {kind: ERROR, errorKind: MISSING_PARAMETER}.
C18_MissingKeyIsRejected ==
    (/\ lastResponse.endpoint = "flag"
     /\ lastResponse.params.contextKey \in {None, <<>>})
        => /\ lastResponse.status = 400
           /\ lastResponse.body.error = "Missing required parameter: contextKey"
           /\ lastResponse.body.value = DefaultMessage
           /\ lastResponse.body.reason =
                    [kind |-> "ERROR", errorKind |-> "MISSING_PARAMETER"]


\* The optional fields of a reason.
OptionalReasonFields == {"ruleIndex", "ruleId", "errorKind"}

\* Field f is populated in the engine's reason r: r is a dict that has f, not None.
Populated(r, f) == r.isDict /\ f \in DOMAIN r.d /\ r.d[f] # PyNone

\* C19: when the engine answers, the reason returned has each of ruleIndex, ruleId
\* and errorKind exactly when the engine's reason has that field with a value that is
\* not None, and then with that value; a field is never returned as None.
C19_OptionalFieldsOnlyWhenPopulated ==
    (lastEval.made /\ lastEval.engineCalled /\ ~lastEval.engine.raises) =>
        \A f \in OptionalReasonFields :
            /\ (f \in DOMAIN lastEval.result.reason)
                    <=> Populated(lastEval.engine.reason, f)
            /\ (f \in DOMAIN lastEval.result.reason) =>
                    /\ lastEval.result.reason[f] # PyNone
                    /\ lastEval.result.reason[f] = lastEval.engine.reason.d[f]

\* An engine reason with a rule index and a ruleId of None: the index is returned,
\* the id is left out.
C19_Witness ==
    /\ lastEval.made
    /\ lastEval.engineCalled
    /\ ~lastEval.engine.raises
    /\ lastEval.engine.reason.isDict
    /\ "ruleId" \in DOMAIN lastEval.engine.reason.d
    /\ lastEval.engine.reason.d["ruleId"] = PyNone
    /\ DOMAIN lastEval.result.reason = {"kind", "ruleIndex"}

\* C20: when the engine's reason is not a dict, is an empty dict, or is a dict without
\* a usable kind (none, or None), evaluate_flag returns the engine's value with the
\* reason kind UNKNOWN.
C20_UnrecognizedReasonIsUnknown ==
    (/\ lastEval.made
     /\ lastEval.engineCalled
     /\ ~lastEval.engine.raises
     /\ ~Populated(lastEval.engine.reason, "kind"))
        => /\ lastEval.result.value = lastEval.engine.value
           /\ lastEval.result.reason.kind = "UNKNOWN"


\* A key that is missing: None, the empty string or a string of blanks.
KeyMissing(k) == IsNone(k) \/ (IsStr(k) /\ Len(Strip(k)) = 0)

\* C21: a call of either context builder (buildContext on a record, create_context on
\* raw parameters) whose key is missing (None, empty or whitespace-only) fails with
\* the invalid-input error (ValueError) and builds no context.
C21_MissingKeyFailsInvalidInput ==
    (lastBuild.made /\ KeyMissing(lastBuild.keyGiven)) =>
        /\ ~lastBuild.outcome.ok
        /\ lastBuild.outcome.error = "ValueError"

\* C22: a call of either context builder in which email, name or location is present
\* but is not a string fails with an invalid-argument error (TypeError or ValueError)
\* and builds no context.
C22_NonStringAttributeFails ==
    (/\ lastBuild.made
     /\ lastBuild.attrsGiven
     /\ \E a \in AttrNames : lastBuild.attrs[a] = NonStr) =>
        /\ ~lastBuild.outcome.ok
        /\ lastBuild.outcome.error \in {"TypeError", "ValueError"}

\* C23: in a context built by either builder, the user sub-context has the attribute
\* a of email, name, location exactly when the input gave a string for a that is
\* non-empty after trimming, and the value stored is the trimmed input.
C23_AttributesStoredTrimmed ==
    (lastBuild.made /\ lastBuild.outcome.ok) =>
        \A a \in AttrNames :
            LET given == lastBuild.attrs[a]
                stored == lastBuild.outcome.context.user.attrs
            IN  /\ a \in DOMAIN stored <=> (IsStr(given) /\ Len(Strip(given)) > 0)
                /\ a \in DOMAIN stored => stored[a] = Strip(given)

\* A context built from a padded email and a blank name.
C23_Witness ==
    /\ lastBuild.made
    /\ lastBuild.outcome.ok
    /\ lastBuild.attrs["email"] = <<" ", "u", " ">>
    /\ lastBuild.attrs["name"] = <<" ">>
    /\ lastBuild.attrs["location"] = None
    /\ DOMAIN lastBuild.outcome.context.user.attrs = {"email"}
    /\ lastBuild.outcome.context.user.attrs["email"] = <<"u">>

WrittenBy(r) ==
    /\ ctxReq[r].pc = "done"
    /\ ctxReq[r].status = 200
    /\ current_context = ctxReq[r].new_context

\* C26: under any interleaving of POST /api/context requests the current context is
\* the whole dict of one request (or the initial one), and whenever its user
\* sub-context is anonymous its key begins with "python-anon-" and is not the key of
\* a custom, email-keyed context that a request built.
C26_CurrentContextNeverMixed ==
    /\ current_context = InitialContext \/ \E r \in Requests : WrittenBy(r)
    /\ current_context.user.anonymous =>
        /\ StartsWithAnon(current_context.user.key)
        /\ \A r \in Requests :
            (ctxReq[r].type = "custom" /\ ctxReq[r].pc \in {"built", "done"}
                /\ ctxReq[r].status \in {0, 200})
                => current_context.user.key # ctxReq[r].email

C28_CycleEmitsWholeQueue ==
    [][\A s \in Streams :
        (pc[s] = "loop" /\ pc'[s] = "sleeping")
            => Len(emitted'[s]) = Len(emitted[s]) + Len(queue[s])]_vars

\* The step is a turn of the loop of s that writes a heartbeat line.
HeartbeatWritten(s) ==
    /\ pc[s] = "loop"
    /\ \/ heartbeats'[s] > heartbeats[s]
       \/ sinceHb[s] > 0 /\ sinceHb'[s] = 0

\* C29 as stated: a turn of the loop writes a heartbeat only when at least 15 seconds
\* have passed since the connection's last data event or heartbeat, so that a data
\* event less than 15 seconds earlier postpones the heartbeat.
C29_HeartbeatOnlyAfterQuietInterval ==
    [][\A s \in Streams :
        HeartbeatWritten(s)
            => /\ sinceAct[s] >= heartbeat_interval
               /\ emitted'[s] = emitted[s]]_vars

\* C29 amended: a turn of the loop writes a heartbeat only when at least 15 seconds
\* have passed since last_heartbeat was set, by the previous heartbeat or at the entry
\* of the loop, so that two heartbeats are never less than 15 seconds apart; a data
\* event does not postpone the heartbeat.
C29_HeartbeatOnlyAfterInterval ==
    [][\A s \in Streams :
        HeartbeatWritten(s) => sinceHb[s] >= heartbeat_interval]_vars

\* A heartbeat written 15 seconds after the entry of the loop, in the turn that has
\* just emitted an update.
C29_Witness ==
    \E s \in Streams :
        /\ pc[s] = "sleeping"
        /\ heartbeats[s] = 1
        /\ sinceHb[s] = 0
        /\ openFor[s] = heartbeat_interval
        /\ Len(emitted[s]) = 2
        /\ Len(enqueued[s]) = 1

\* C30: registration of the listener is best-effort. A connection in its loop whose
\* listener was not registered, because the registration raised or the client was not
\* ready, is open, holds no listener, and has emitted its initial snapshot and nothing
\* else but heartbeats; and the step that leaves the initial yield emits no event and
\* does not end the generator with an error.
C30_RegistrationIsBestEffort ==
    /\ [](\A s \in Streams :
            (pc[s] \in {"loop", "sleeping"}
                /\ (~IsSdkInitialized \/ ~listener_registered[s]))
                => /\ ~listener_registered[s]
                   /\ s \notin listeners
                   /\ closedBy[s] = "none"
                   /\ queue[s] = <<>>
                   /\ Len(emitted[s]) = 1
                   /\ emitted[s][1].src = "initial")
    /\ [][\A s \in Streams :
            pc[s] = "yielded"
                => /\ emitted'[s] = emitted[s]
                   /\ closedBy'[s] # "error"]_vars

\* A connection whose registration raised on a ready client: the flag has changed
\* since, and the connection has written its snapshot and a heartbeat.
C30_Witness ==
    \E s \in Streams :
        /\ pc[s] = "sleeping"
        /\ IsSdkInitialized
        /\ ~listener_registered[s]
        /\ changes >= 1
        /\ heartbeats[s] = 1
        /\ Len(emitted[s]) = 1


\* C31: a call of a connection's listener whose re-evaluation fails (the engine's
\* evaluation raises; here the first evaluation that fails for the connection) puts no
\* payload into the connection's queue.
C31_FailedReevaluationNotEnqueued ==
    [][\A s \in Streams :
        (notified'[s] > notified[s] /\ ~evalFailed[s] /\ evalFailed'[s])
            => enqueued'[s] = enqueued[s]]_vars


\* C32: with several connections open, the payloads in a connection's queue are put
\* there by its own listener alone (one per call, only once it has registered, each
\* computed from the connection's own context key), the updates the connection writes
\* are taken from its own queue in order, and a connection at the top of its loop can
\* always take its turn, whatever the other connections do.
C32_QueuesArePerConnection ==
    \A s \in Streams :
        /\ Len(enqueued[s]) = notified[s]
        /\ enqueued[s] # <<>> => listener_registered[s]
        /\ \A i \in 1..Len(enqueued[s]) :
                enqueued[s][i].hashInfo =
                    CalculateHashValue(FlagKey, streamKey[s], GetFlagSalt(FlagKey))
        /\ Len(UpdatesSent(s)) <= Len(enqueued[s])
        /\ UpdatesSent(s) = SubSeq(enqueued[s], 1, Len(UpdatesSent(s)))
        /\ pc[s] \in {"loop", "sleeping"} =>
                queue[s] = SubSeq(enqueued[s], Len(UpdatesSent(s)) + 1, Len(enqueued[s]))
        /\ pc[s] = "loop" => ENABLED LoopIteration(s)

\* Two connections with different context keys, each of which has written an update
\* computed from its own key; one is at the top of its loop while the other sleeps.
C32_Witness ==
    /\ streamKey["s1"] # streamKey["s2"]
    /\ pc["s1"] = "loop"
    /\ pc["s2"] = "sleeping"
    /\ Len(UpdatesSent("s1")) = 1
    /\ Len(UpdatesSent("s2")) = 1
    /\ UpdatesSent("s1")[1] # UpdatesSent("s2")[1]

\* C33: attaching the bucketing information never changes the decision. The value and
\* the reason of every 200 response of GET /api/flag are those of the result that
\* evaluate_flag returned for the request, with hashInfo attached or without it (the
\* hash calculation failed); the message of the initial event of a stream and of
\* every payload a listener puts is the value of a result evaluate_flag can return at
\* that moment, a failed evaluation being one whose payload carries the default.
C33_ListenerEngines ==
    {EngineRaises(<<"Network error">>),
     EngineReturns(flagValue', ReasonDict([kind |-> "FALLTHROUGH"]))}

C33_HashInfoNeverDecides ==
    /\ []((lastResponse.endpoint = "flag" /\ lastResponse.status = 200) =>
            /\ Len(lastResponse.evaluated) = 1
            /\ lastResponse.body.value = lastResponse.evaluated[1].value
            /\ lastResponse.body.reason = lastResponse.evaluated[1].reason)
    /\ [][\A s \in OneStream :
            /\ (pc[s] = "open" /\ pc'[s] = "yielded") =>
                    \E engine \in StreamEngineOutcomes(flagValue) :
                        LET result == EvaluateFlag(FlagKey, None, DefaultMessage, engine)
                        IN  /\ emitted'[s][Len(emitted'[s])].data.message = result.value
                            /\ evalFailed'[s] = (result.reason.kind = "ERROR")
            /\ Len(enqueued'[s]) > Len(enqueued[s]) =>
                    \E engine \in C33_ListenerEngines :
                        LET result == EvaluateFlag(FlagKey, None, DefaultMessage, engine)
                        IN  /\ enqueued'[s][Len(enqueued'[s])].message = result.value
                            /\ evalFailed'[s] =
                                    (evalFailed[s] \/ result.reason.kind = "ERROR")]_vars

C33_Witness ==
    /\ lastResponse.endpoint = "flag"
    /\ lastResponse.status = 200
    /\ "hashInfo" \notin DOMAIN lastResponse.body
    /\ lastResponse.body.value = "B"
    /\ Len(emitted["s1"]) = 1
    /\ emitted["s1"][1].data.message = "B"
    /\ ~emitted["s1"][1].data.hashInfo.isNone


\* C34: when GET /api/flag falls back to the current context, the key, email, name
\* and location it evaluates with all come from one single value that current_context
\* held at some instant of the request, also when a context update runs beside it.
C34_FromOneContext(c) ==
    /\ flagReq.context_key = c.user.key
    /\ \A a \in AttrNames :
            flagReq.attrs[a] = IF a \in DOMAIN c.user.attrs THEN c.user.attrs[a] ELSE None

C34_FallbackReadsOneContext ==
    flagReq.pc = "done" => \E c \in flagReq.seen : C34_FromOneContext(c)

\* C35: a start always terminates. Whatever the engine's readiness does, never ready
\* included, a call of initialize_launchdarkly_sdk() that has entered its wait loop
\* leaves it, and the call returns True or False.
C35_StartTerminates ==
    (initPc = "waiting") ~> (initPc = "done" /\ initResult \in {"True", "False"})

C35_Witness ==
    /\ initPc = "done"
    /\ initResult = "False"
    /\ ld_client # NoClient
    /\ ~engineReady
    /\ sdk_initialization_error = "SDK initialization timed out"

\* C36: the hashInfo attached to an evaluation result is computed from the key of the
\* user sub-context that was evaluated, for every contextKey that validation accepts,
\* keys with leading or trailing whitespace included.
C36_HashOfEvaluatedKey ==
    (/\ lastResponse.endpoint = "flag"
     /\ lastResponse.status = 200
     /\ "hashInfo" \in DOMAIN lastResponse.body) =>
        lastResponse.body.hashInfo =
            CalculateHashValue(FlagKey, lastResponse.body.context.user.key,
                               lastResponse.body.hashInfo.salt)

\* C37: setting the current context to anonymous keeps the key. A request of type
\* anonymous that found the current context to be an anonymous multi-context with a
\* "python-anon-" key sets a context with a kept key, which is a "python-anon-" key
\* that the request did not make; a request that found anything else sets a context
\* with a key made for this request.
C37_AnonymousKeepsKey ==
    \A r \in Requests :
        (ctxReq[r].type = "anonymous" /\ ctxReq[r].pc \in {"built", "done"}
            /\ ctxReq[r].status \in {0, 200})
            => IF ctxReq[r].needs_new_key
               THEN ctxReq[r].new_context.user.key = NewAnonKey(r)
               ELSE /\ StartsWithAnon(ctxReq[r].new_context.user.key)
                    /\ ctxReq[r].new_context.user.key # NewAnonKey(r)

\* C38: a context update that fails leaves the current context as it is: the step in
\* which a POST /api/context is answered 400 (custom without a non-blank email) or 500
\* (an exception while the body is handled) does not change current_context, and
\* neither does the step in which GET /api/context answers.
C38_FailedUpdateKeepsContext ==
    [][/\ \A r \in Requests :
            (ctxReq[r].status = 0 /\ ctxReq'[r].status \in {400, 500})
                => current_context' = current_context
       /\ (lastResponse' # lastResponse /\ lastResponse'.endpoint = "context")
                => /\ current_context' = current_context
                   /\ lastResponse'.body = current_context]_vars

C38_Witness ==
    /\ current_context # InitialContext
    /\ ctxReq["r1"].status = 200
    /\ ctxReq["r2"].status = 500
    /\ ctxReq["r2"].type = "anonymous"
    /\ lastResponse.endpoint = "context"
    /\ lastResponse.body = current_context

\* C39: in every state of the lifecycle the recorded initialization error is absent
\* whenever the initialized flag is set, and the flag is clear whenever an error is
\* recorded; so is_sdk_initialized() true implies get_sdk_initialization_error() is
\* None, after any sequence of calls of initialize_launchdarkly_sdk().
C39_ReadyMeansNoError ==
    /\ sdk_initialized => sdk_initialization_error = "None"
    /\ sdk_initialization_error # "None" => ~sdk_initialized
    /\ IsSdkInitialized => GetSdkInitializationError = "None"

\* A start that succeeded after an earlier start that failed with a client made.
C39_Witness ==
    /\ starts = 2
    /\ ld_client = 2
    /\ initPc = "done"
    /\ initResult = "True"
    /\ IsSdkInitialized
    /\ GetSdkInitializationError = "None"

====
